---------------------------- MODULE Spec2Model ----------------------------
(***************************************************************************)
(* Model of the SenseEdge training and INT8 quantization pipeline          *)
(* (src/ml/train_senseedge.py).                                            *)
(*                                                                         *)
(* Numbers.  The program computes in float64.  The model computes in exact *)
(* integer and rational arithmetic: a tensor element is an integer, a      *)
(* scale factor or an accuracy is a fraction <<num, den>>, a learning rate *)
(* is an integer number of millionths, and a rounding the program performs *)
(* (np.round, the rounding of a float product) is a rounding to the        *)
(* nearest integer, ties to even.  float64 is finite: a tensor may be      *)
(* marked as holding multiples of the smallest subnormal, 2^-1074, and the *)
(* quotient 127.0 / w_max of such a tensor overflows to inf.  What a cast  *)
(* of inf or nan to an integer gives is undefined and depends on the       *)
(* platform (build).                                                       *)
(*                                                                         *)
(* Arrays.  A numpy array is a record [shape, data]: shape is the tuple of *)
(* its dimensions and data its elements in C (row-major) order, which is   *)
(* how numpy stores the arrays this program creates.                       *)
(***************************************************************************)
EXTENDS Integers, Sequences, FiniteSets, TLC

VARIABLES
    \* --- quantize_int8 applied to the four parameter tensors (SpecQuant)
    qpc,        \* "start" | "quantized"
    qT,         \* the four float tensors W1, b1, W2, b2 (index 1..4)
    qQ,         \* the four quantized tensors
    qScales,    \* the list scales = [s1w, s1b, s2w, s2b]
    build,      \* the platform numpy was built for: "x86_64" | "aarch64"
    \* --- save_weights applied to tensors of any shape (SpecSave)
    spc,        \* "start" | "saved" | "AssertionError"
    sIn,        \* the four tensors handed to save_weights (index 1..4)
    sScales,    \* the scales handed to save_weights
    sFile,      \* the .npz container written, or NoFile
    \* --- one run of main (Spec): the environment and the invocation
    args,       \* parsed arguments: cwru_dir, epochs, batch_size, lr, samples, seed
    scipy,      \* whether scipy can be imported
    files,      \* the four expected .mat files of cwru_dir, by class
    \* --- one run of main (Spec): the program
    pc,         \* position in main / train
    X, y,       \* the dataset: feature rows and labels
    exitStatus, \* the process exit status, -1 while running
    raised,     \* what ended the run early ("" when nothing did)
    heap,       \* the live arrays of parameters, by address
    W,          \* train: addresses of the working W1, b1, W2, b2
    best_params,  \* train: addresses of the best snapshot's four arrays
    best_val_acc, \* train: best validation accuracy so far
    lr,         \* train: learning rate, in millionths
    rng,        \* train: its RandomState
    epoch,      \* train: the epoch loop's counter
    perm,       \* train: this epoch's permutation of the training set
    start,      \* train: the batch loop's counter
    n_batches,  \* train: batches of this epoch so far
    P,          \* main: addresses of the W1, b1, W2, b2 train returned
    float_acc,  \* main: float validation accuracy
    Wq,         \* main: the four quantized tensors
    scales,     \* main: [s1w, s1b, s2w, s2b]
    int8_acc,   \* main: quantized validation accuracy
    warned,     \* main: whether the below-90% warning was printed
    outFile,    \* the .npz container written to args.output, or NoFile
    class_acc,  \* main: per-class quantized accuracy, classes 0..3
    valHist,    \* history: the validation accuracy of each finished epoch
    paramHist,  \* history: the working parameters at the end of each epoch
    batches,    \* history: the batches of the current epoch, in order
    \* --- a data source called twice (SpecTwice)
    tpc,        \* "start" | "first" | "second"
    tIn,        \* the arguments and files both calls are given
    npRandom,   \* the state of the process-wide np.random
    tOut1,      \* what the first call returned
    tOut2       \* what the second call returned

quantVars == <<qpc, qT, qQ, qScales, build>>
saveVars == <<spc, sIn, sScales, sFile>>
envVars == <<args, scipy, files>>
dataVars == <<X, y>>
trainVars == <<heap, W, best_params, best_val_acc, lr, rng, epoch, perm, start,
               n_batches, valHist, paramHist, batches>>
postVars == <<P, float_acc, Wq, scales, int8_acc, warned, outFile, class_acc>>
twiceVars == <<tpc, tIn, npRandom, tOut1, tOut2>>
mainVars == <<args, scipy, files, pc, X, y, exitStatus, raised,
              heap, W, best_params, best_val_acc, lr, rng, epoch, perm, start,
              n_batches, valHist, paramHist, batches,
              P, float_acc, Wq, scales, int8_acc, warned, outFile, class_acc>>
vars == <<qpc, qT, qQ, qScales, build, spc, sIn, sScales, sFile,
          args, scipy, files, pc, X, y, exitStatus, raised,
          heap, W, best_params, best_val_acc, lr, rng, epoch, perm, start,
          n_batches, valHist, paramHist, batches,
          P, float_acc, Wq, scales, int8_acc, warned, outFile, class_acc,
          tpc, tIn, npRandom, tOut1, tOut2>>

-----------------------------------------------------------------------------
(* Network topology: 8 inputs -> 16 hidden -> 4 outputs.                   *)

NIn == 8
NHidden == 16
NOut == 4
NParams == 212

-----------------------------------------------------------------------------
(* Integer and rational helpers.                                           *)

Abs(x) == IF x < 0 THEN -x ELSE x

MaxOf(S) == CHOOSE m \in S : \A x \in S : x <= m

MinOf(S) == CHOOSE m \in S : \A x \in S : m <= x

RECURSIVE SumSeq(_)
SumSeq(s) == IF s = <<>> THEN 0 ELSE Head(s) + SumSeq(Tail(s))

RECURSIVE ProdSeq(_)
ProdSeq(s) == IF s = <<>> THEN 1 ELSE Head(s) * ProdSeq(Tail(s))

RECURSIVE ConcatAll(_)
ConcatAll(ss) == IF ss = <<>> THEN <<>> ELSE Head(ss) \o ConcatAll(Tail(ss))

\* np.round of the fraction n/d (d # 0): nearest integer, ties to even.
RoundHalfEven(n, d) ==
    LET nn == IF d < 0 THEN -n ELSE n
        dd == IF d < 0 THEN -d ELSE d
        f == nn \div dd
        r == nn % dd
    IN  IF 2 * r < dd THEN f
        ELSE IF 2 * r > dd THEN f + 1
        ELSE IF f % 2 = 0 THEN f ELSE f + 1

\* np.clip(x, lo, hi)
Clip(x, lo, hi) == IF x < lo THEN lo ELSE IF x > hi THEN hi ELSE x

\* ndarray.astype(np.int8) of an integer: wraps modulo 2^8.
AsInt8(x) == ((x + 128) % 256) - 128

\* Equality and order of fractions with positive denominators.
FracEq(a, b) == a[1] * b[2] = b[1] * a[2]

FracLess(a, b) == a[1] * b[2] < b[1] * a[2]

-----------------------------------------------------------------------------
(* numpy arrays.                                                           *)

\* A function on 1..n written out as a tuple, so that it is computed once.
Vec(f) == f \o <<>>

Arr(shape, data) == [shape |-> Vec(shape), data |-> Vec(data)]

Size(t) == Len(t.data)

\* t[i] of a 1-D array and t[r][c] of a 2-D array, indices from 0.
At1(t, i) == t.data[i + 1]

At2(t, r, c) == t.data[r * t.shape[2] + c + 1]

\* ndarray.flatten(): a 1-D copy in row-major order.
Flatten(t) ==
    IF Len(t.shape) = 2
    THEN Arr(<<t.shape[1] * t.shape[2]>>,
             [k \in 1..(t.shape[1] * t.shape[2]) |->
                 At2(t, (k - 1) \div t.shape[2], (k - 1) % t.shape[2])])
    ELSE Arr(<<Len(t.data)>>, [k \in 1..Len(t.data) |-> At1(t, k - 1)])

\* np.concatenate of 1-D arrays.
Concatenate(ts) ==
    LET d == ConcatAll(Vec([i \in 1..Len(ts) |-> ts[i].data]))
    IN  Arr(<<Len(d)>>, d)

\* np.zeros_like(t)
ZerosLike(t) == Arr(t.shape, [k \in 1..Len(t.data) |-> 0])

-----------------------------------------------------------------------------
(* INT8 quantization.                                                      *)

\* A float64 tensor whose k-th element is data[k] * 2^-1074 in place of
\* data[k]: its elements are subnormal numbers.
Subnormal(t) == [shape |-> t.shape, data |-> t.data, ulp |-> "2^-1074"]

IsSubnormal(t) == "ulp" \in DOMAIN t

\* The platforms of the cast below.
Builds == {"x86_64", "aarch64"}

\* The maximum taken without the absolute value: np.max(weights).
MaxNoAbs(weights) == MaxOf({weights.data[k] : k \in 1..Len(weights.data)})

\* np.max(np.abs(weights))
MaxAbs(weights) == MaxOf({Abs(weights.data[k]) : k \in 1..Len(weights.data)})

\* Whether 127.0 / w_max exceeds the largest float64 (below 2^1024) and is
\* inf: it does when w_max < 127 * 2^-1024, that is for a subnormal tensor
\* (w_max = m * 2^-1074) when m < 127 * 2^50, which holds of every integer m
\* of the model.
ScaleOverflows(weights) == IsSubnormal(weights) /\ MaxAbs(weights) # 0

\* np.clip(np.round(x * scale).astype(np.int64), -128, 127) for a product
\* x * scale that is not finite: inf for x > 0, -inf for x < 0, nan for
\* x = 0 (0 * inf).  np.round leaves it as it is; the cast of such a value to
\* int64 is undefined in C.  On x86_64 the conversion gives -2^63 in the three
\* cases, which the clip brings to -128; on aarch64 it saturates (2^63 - 1,
\* -2^63, and 0 for nan), which the clip brings to 127, -128, 0.
CastClipNonFinite(x, b) ==
    IF b = "x86_64" THEN -128
    ELSE IF x > 0 THEN 127
    ELSE IF x < 0 THEN -128
    ELSE 0

\* quantize_int8 without its zero guard: 127.0 / 0 is inf, 0 * inf is nan.
quantize_int8_noguard(weights, b) ==
    LET w_max == MaxAbs(weights)
    IN  IF w_max = 0 \/ ScaleOverflows(weights)
        THEN [q |-> Arr(weights.shape,
                        [k \in 1..Len(weights.data) |->
                            AsInt8(CastClipNonFinite(weights.data[k], b))]),
              scale |-> <<1, 0>>]
        ELSE [q |-> Arr(weights.shape,
                        [k \in 1..Len(weights.data) |->
                            AsInt8(Clip(RoundHalfEven(weights.data[k] * 127, w_max),
                                        -128, 127))]),
              scale |-> <<127, w_max>>]

\* quantize_int8(weights) -> q, scale, on the platform b.  The scale inf is
\* the fraction <<1, 0>>.
quantize_int8(weights, b) ==
    LET w_max == MaxAbs(weights)
    IN  IF w_max = 0
        THEN [q |-> ZerosLike(weights), scale |-> <<1, 1>>]
        ELSE IF ScaleOverflows(weights)
        THEN [q |-> Arr(weights.shape,
                        [k \in 1..Len(weights.data) |->
                            AsInt8(CastClipNonFinite(weights.data[k], b))]),
              scale |-> <<1, 0>>]
        ELSE [q |-> Arr(weights.shape,
                        [k \in 1..Len(weights.data) |->
                            AsInt8(Clip(RoundHalfEven(weights.data[k] * 127, w_max),
                                        -128, 127))]),
              scale |-> <<127, w_max>>]

\* main, "Quantize to INT8" and the scales list handed to save_weights, with
\* one scale shared by the four tensors (the maximum over all of them).
MainQuantizeGlobal(params, b) ==
    LET g == MaxOf({MaxAbs(params[i]) : i \in 1..4})
        one(t) == IF g = 0 THEN ZerosLike(t)
                  ELSE Arr(t.shape,
                           [k \in 1..Len(t.data) |->
                               AsInt8(Clip(RoundHalfEven(t.data[k] * 127, g), -128, 127))])
    IN  [q |-> Vec([i \in 1..4 |-> one(params[i])]),
         scales |-> Vec([i \in 1..4 |-> IF g = 0 THEN <<1, 1>> ELSE <<127, g>>])]

\* main, "Quantize to INT8": W1_q, s1w = quantize_int8(W1) ... and
\* scales = [s1w, s1b, s2w, s2b].  params is <<W1, b1, W2, b2>>.
MainQuantize(params, b) ==
    [q |-> Vec([i \in 1..4 |-> quantize_int8(params[i], b).q]),
     scales |-> Vec([i \in 1..4 |-> quantize_int8(params[i], b).scale])]

-----------------------------------------------------------------------------
(* Serialization.                                                          *)

NoFile == [saved |-> FALSE]

\* The flat array with the biases of layer 1 ahead of its weights.
AllWeightsBiasFirst(W1_q, b1_q, W2_q, b2_q) ==
    LET cat == Concatenate(<<Flatten(b1_q), Flatten(W1_q), Flatten(W2_q), Flatten(b2_q)>>)
    IN  Arr(cat.shape, [k \in 1..Len(cat.data) |-> AsInt8(cat.data[k])])

\* save_weights: all_weights = np.concatenate([...]).astype(np.int8)
AllWeights(W1_q, b1_q, W2_q, b2_q) ==
    LET cat == Concatenate(<<Flatten(W1_q), Flatten(b1_q), Flatten(W2_q), Flatten(b2_q)>>)
    IN  Arr(cat.shape, [k \in 1..Len(cat.data) |-> AsInt8(cat.data[k])])

\* The size assertion as "at most 212".
SizeAssertAtMost(all_weights) == Len(all_weights.data) <= NParams

\* save_weights: assert len(all_weights) == 212
SizeAssert(all_weights) == Len(all_weights.data) = NParams

\* save_weights(path, W1_q, b1_q, W2_q, b2_q, scales): the exception it raises
\* ("" when none) and the container np.savez writes.
save_weights(W1_q, b1_q, W2_q, b2_q, scale_list) ==
    LET all_weights == AllWeights(W1_q, b1_q, W2_q, b2_q)
    IN  IF ~SizeAssert(all_weights)
        THEN [raised |-> "AssertionError", file |-> NoFile]
        ELSE [raised |-> "",
              file |-> [saved |-> TRUE,
                        layer1_weights |-> W1_q,
                        layer1_biases |-> b1_q,
                        layer2_weights |-> W2_q,
                        layer2_biases |-> b2_q,
                        all_weights |-> all_weights,
                        scales |-> scale_list]]

-----------------------------------------------------------------------------
(* The variables of a specification that is not the one being run.         *)

NoQuant == Vec([i \in 1..4 |-> Arr(<<0>>, <<>>)])

QuantIdle ==
    /\ qpc = "idle"
    /\ qT = NoQuant
    /\ qQ = NoQuant
    /\ qScales = <<>>

\* The platform in a specification none of whose runs casts a value that is
\* not finite to an integer: the platforms differ in that cast alone, so its
\* runs are the same on each.
AnyBuild == build = "x86_64"

SaveIdle ==
    /\ spc = "idle"
    /\ sIn = NoQuant
    /\ sScales = <<>>
    /\ sFile = NoFile

NoCall == [X |-> <<>>, y |-> <<>>]

TwiceIdle ==
    /\ tpc = "idle"
    /\ tIn = [cwru_dir |-> FALSE, samples |-> 0, seed |-> 0]
    /\ npRandom = [seed |-> 0, pos |-> 0]
    /\ tOut1 = NoCall
    /\ tOut2 = NoCall

-----------------------------------------------------------------------------
(* Random sources.  np.random.RandomState(seed) is a deterministic stream: *)
(* the model keeps its seed and the number of values drawn, and computes   *)
(* the k-th raw value from both.  The stream itself (Mersenne Twister) is  *)
(* stood in for by a fixed arithmetic formula.                             *)

\* A generator that is the process-wide one, whatever the seed.
ProcessWideState(seed) == npRandom

\* np.random.RandomState(seed): a generator of its own, at the start of the
\* stream of its seed.
RandomState(seed) == [seed |-> seed, pos |-> 0]

\* The raw value a stream yields at a position, in 0..1008.
RawDraw(seed, pos) == ((seed * 131 + 17) * (pos + 3) + 7 * pos * pos + 29 * seed) % 1009

Advance(st, k) == [st EXCEPT !.pos = @ + k]

\* rng.uniform(lo, hi, n): n values of [lo, hi), on the integer grid.
Uniform(st, lo, hi, n) ==
    Vec([i \in 1..n |-> lo + (RawDraw(st.seed, st.pos + i - 1) % (hi - lo))])

\* rng.randn(r, c): r*c draws, centred on 0, on the integer grid -8..8 that
\* stands for standard normal draws.
Randn(st, r, c) ==
    Arr(<<r, c>>,
        [k \in 1..(r * c) |-> (RawDraw(st.seed, st.pos + k - 1) % 17) - 8])

\* Swap of two positions of a sequence.
Swap(s, i, j) == [s EXCEPT ![i] = s[j], ![j] = s[i]]

\* rng.permutation(n): a Fisher-Yates shuffle of <<0, ..., n-1>> driven by
\* n - 1 draws of the stream.
RECURSIVE Shuffle(_, _, _, _)
Shuffle(s, i, seed, pos) ==
    IF i <= 1 THEN s
    ELSE Shuffle(Swap(s, i, 1 + (RawDraw(seed, pos) % i)), i - 1, seed, pos + 1)

\* n indices drawn independently (with replacement) in place of a shuffle.
Resample(st, n) == Vec([k \in 1..n |-> RawDraw(st.seed, st.pos + k - 1) % n])

Permutation(st, n) == Shuffle(Vec([k \in 1..n |-> k - 1]), n, st.seed, st.pos)

\* A sequence that keeps every index in place of shuffling.
NoShuffle(st, n) == Vec([k \in 1..n |-> k - 1])

\* The permutations of <<0, ..., n-1>>: what the process-wide, unseeded
\* np.random.permutation(n) can return.
IndexPermutations(n) ==
    {p \in [1..n -> 0..(n - 1)] : \A i, j \in 1..n : p[i] = p[j] => i = j}

\* Fancy indexing a[idx] of a sequence by a sequence of 0-based indices.
Take(a, idx) == Vec([k \in 1..Len(idx) |-> a[idx[k] + 1]])

-----------------------------------------------------------------------------
(* Synthetic data.                                                         *)

\* The uniform range of each of the 8 features, per class 0..3, in the
\* order band_low, band_midlow, band_midhi, band_high, peak_freq, peak_mag,
\* centroid, total_energy.
ClassRanges ==
    << << <<140, 255>>, <<20, 80>>, <<5, 40>>, <<0, 25>>,
          <<10, 60>>, <<30, 100>>, <<10, 50>>, <<40, 120>> >>,
       << <<40, 100>>, <<150, 255>>, <<30, 80>>, <<10, 50>>,
          <<50, 110>>, <<180, 255>>, <<50, 100>>, <<120, 200>> >>,
       << <<20, 70>>, <<30, 80>>, <<160, 255>>, <<20, 70>>,
          <<100, 170>>, <<100, 180>>, <<100, 160>>, <<100, 180>> >>,
       << <<10, 50>>, <<15, 60>>, <<40, 100>>, <<170, 255>>,
          <<170, 248>>, <<120, 210>>, <<160, 230>>, <<130, 220>> >> >>

\* The j-th uniform call (1..8) for class c (0..3) is call number 8c + j of
\* the stream, each call drawing n values.
SyntheticColumn(seed, n, c, j) ==
    Uniform(Advance(RandomState(seed), (8 * c + j - 1) * n),
            ClassRanges[c + 1][j][1], ClassRanges[c + 1][j][2], n)

\* generate_synthetic_data(n_samples_per_class, seed) -> X, y
generate_synthetic_data(n, seed) ==
    LET rows == Vec([k \in 1..(4 * n) |->
                        LET c == (k - 1) \div n
                            i == ((k - 1) % n) + 1
                        IN  Vec([j \in 1..NIn |-> SyntheticColumn(seed, n, c, j)[i]])])
        labels == Vec([k \in 1..(4 * n) |-> (k - 1) \div n])
        idx == Permutation(Advance(RandomState(seed), 32 * n), 4 * n)
    IN  [X |-> Take(rows, idx), y |-> Take(labels, idx)]

-----------------------------------------------------------------------------
(* Real-signal data.                                                       *)

window_size == 1024
hop == 512

\* file_class_map: Normal.mat -> 0, B007.mat -> 1, IR007.mat -> 2,
\* OR007.mat -> 3, iterated in this order.
FileClasses == <<0, 1, 2, 3>>

\* The eight features of window i of the signal of class c.  The 64-point
\* spectrum of the segment is not computed: the features are a fixed function
\* of the file and the window, non-negative as magnitudes are.
SignalFeatures(c, i) ==
    Vec([j \in 1..NIn |-> ((c + 2) * (i + 3) * (j + 1) * 7 + 13 * j * j + 5 * c) % 97])

\* n_windows = (len(signal) - window_size) // hop, and range(n_windows).
NWindows(len) ==
    LET n_windows == (len - window_size) \div hop
    IN  IF n_windows < 0 THEN 0 ELSE n_windows

\* Whether the loop body reaches the windowing for a file: the file exists
\* and holds a key ending in _DE_time.
Usable(f) == f.present /\ f.key

\* The loop leaving at the first file it cannot use (break for continue).
RECURSIVE CollectUntilMissing(_, _)
CollectUntilMissing(fs, k) ==
    IF k > Len(FileClasses) THEN [X |-> <<>>, y |-> <<>>]
    ELSE LET label == FileClasses[k]
         IN  IF ~Usable(fs[label])
             THEN [X |-> <<>>, y |-> <<>>]
             ELSE LET n == NWindows(fs[label].len)
                      rest == CollectUntilMissing(fs, k + 1)
                  IN  [X |-> [i \in 1..n |-> SignalFeatures(label, i - 1)] \o rest.X,
                       y |-> [i \in 1..n |-> label] \o rest.y]

\* The rows and labels the loop over file_class_map collects from the files
\* of index k.. of FileClasses; a missing file or a file without the key is
\* skipped (continue).
RECURSIVE Collect(_, _)
Collect(fs, k) ==
    IF k > Len(FileClasses) THEN [X |-> <<>>, y |-> <<>>]
    ELSE LET label == FileClasses[k]
             rest == Collect(fs, k + 1)
         IN  IF ~Usable(fs[label])
             THEN rest
             ELSE LET n == NWindows(fs[label].len)
                  IN  [X |-> [i \in 1..n |-> SignalFeatures(label, i - 1)] \o rest.X,
                       y |-> [i \in 1..n |-> label] \o rest.y]

\* A normalization by the minimum and maximum of the whole matrix in place
\* of those of each column.
NormalizeWhole(rows) ==
    LET all == {rows[k][j] : k \in 1..Len(rows), j \in 1..NIn}
        cmin == MinOf(all)
        cmax == MaxOf(all)
    IN  Vec([k \in 1..Len(rows) |->
                Vec([j \in 1..NIn |->
                        IF cmax > cmin
                        THEN RoundHalfEven((rows[k][j] - cmin) * 255, cmax - cmin)
                        ELSE 0])])

\* "Normalize each feature to [0, 255]": column j of the rows, min-max
\* scaled; a column of zero range becomes 0.
NormalizeColumns(rows) ==
    LET col(j) == {rows[k][j] : k \in 1..Len(rows)}
    IN  Vec([k \in 1..Len(rows) |->
                Vec([j \in 1..NIn |->
                        LET cmin == MinOf(col(j))
                            cmax == MaxOf(col(j))
                        IN  IF cmax > cmin
                            THEN RoundHalfEven((rows[k][j] - cmin) * 255, cmax - cmin)
                            ELSE 0])])

-----------------------------------------------------------------------------
(* The network: forward and backward pass.  A batch is a sequence of rows. *)
(* softmax is taken at its saturated value, 1 at the arg-max logit and 0   *)
(* elsewhere, which is what float64 returns once the logits are more than  *)
(* about 745 apart; the exponentials are not computed.                     *)

RECURSIVE SumIdx(_, _)
SumIdx(s, n) == IF n = 0 THEN 0 ELSE s[n] + SumIdx(s, n - 1)

\* Row x of X @ W.T + b.
Affine(x, Wm, b) ==
    Vec([r \in 1..Wm.shape[1] |->
            SumIdx([c \in 1..Wm.shape[2] |-> x[c] * At2(Wm, r - 1, c - 1)], Wm.shape[2])
                + At1(b, r - 1)])

\* relu(x) = np.maximum(0, x), on one row.
relu(row) == Vec([r \in 1..Len(row) |-> IF row[r] > 0 THEN row[r] ELSE 0])

\* relu_grad(x) = (x > 0), on one element.
relu_grad(v) == IF v > 0 THEN 1 ELSE 0

\* np.argmax of one row: the first index (from 0) of its maximum.
ArgMax(row) ==
    LET m == MaxOf({row[k] : k \in 1..Len(row)})
    IN  MinOf({k \in 1..Len(row) : row[k] = m}) - 1

\* softmax(logits), one row, saturated.
softmax(row) ==
    LET top == ArgMax(row)
    IN  Vec([k \in 1..Len(row) |-> IF k - 1 = top THEN 1 ELSE 0])

\* forward(X, W1, b1, W2, b2) -> z1, h1, z2, probs
forward(Xb, W1, b1, W2, b2) ==
    LET z1 == Vec([b \in 1..Len(Xb) |-> Affine(Xb[b], W1, b1)])
        h1 == Vec([b \in 1..Len(Xb) |-> relu(z1[b])])
        z2 == Vec([b \in 1..Len(Xb) |-> Affine(h1[b], W2, b2)])
    IN  [z1 |-> z1, h1 |-> h1, z2 |-> z2,
         probs |-> Vec([b \in 1..Len(Xb) |-> softmax(z2[b])])]

\* backward(X, z1, h1, probs, labels, W2) -> dW1, db1, dW2, db2.  The
\* division dz2 /= n is carried as the common denominator n of the four
\* gradients, whose numerators are returned.
backward(Xb, z1, h1, probs, labels, W2) ==
    LET n == Len(Xb)
        nh == W2.shape[2]
        no == W2.shape[1]
        ni == IF n = 0 THEN 0 ELSE Len(Xb[1])
        dz2 == Vec([b \in 1..n |->
                       Vec([k \in 1..no |->
                               probs[b][k] - (IF k - 1 = labels[b] THEN 1 ELSE 0)])])
        dh1 == Vec([b \in 1..n |->
                       Vec([h \in 1..nh |->
                               SumIdx([k \in 1..no |-> dz2[b][k] * At2(W2, k - 1, h - 1)],
                                      no)])])
        dz1 == Vec([b \in 1..n |->
                       Vec([h \in 1..nh |-> dh1[b][h] * relu_grad(z1[b][h])])])
    IN  [dW1 |-> Arr(<<nh, ni>>,
                     [i \in 1..(nh * ni) |->
                         SumIdx([b \in 1..n |->
                                    dz1[b][((i - 1) \div ni) + 1] * Xb[b][((i - 1) % ni) + 1]],
                                n)]),
         db1 |-> Arr(<<nh>>, [h \in 1..nh |-> SumIdx([b \in 1..n |-> dz1[b][h]], n)]),
         dW2 |-> Arr(<<no, nh>>,
                     [i \in 1..(no * nh) |->
                         SumIdx([b \in 1..n |->
                                    dz2[b][((i - 1) \div nh) + 1] * h1[b][((i - 1) % nh) + 1]],
                                n)]),
         db2 |-> Arr(<<no>>, [k \in 1..no |-> SumIdx([b \in 1..n |-> dz2[b][k]], n)]),
         n |-> n]

\* param -= lr * grad, the gradient being g / n and lr in millionths; the
\* product is rounded to the grid.
SgdStep(w, g, n, rate) ==
    Arr(w.shape,
        [k \in 1..Len(w.data) |->
            w.data[k] - RoundHalfEven(rate * g.data[k], 1000000 * n)])

\* np.mean(np.argmax(probs, axis=1) == y) as <<correct, n>>; n = 0 is the nan
\* numpy returns for an empty set.
Accuracy(Xs, ys, W1, b1, W2, b2) ==
    LET probs == forward(Xs, W1, b1, W2, b2).probs
    IN  <<Cardinality({b \in 1..Len(ys) : ArgMax(probs[b]) = ys[b]}), Len(ys)>>

\* a >= b on accuracies; every comparison with nan is false.
AccGreaterEq(a, b) == a[2] # 0 /\ b[2] # 0 /\ a[1] * b[2] >= b[1] * a[2]

\* val_acc > best_val_acc
AccGreater(a, b) == a[2] # 0 /\ b[2] # 0 /\ a[1] * b[2] > b[1] * a[2]

\* int8_acc < 0.90
AccBelow90(a) == a[2] # 0 /\ a[1] * 100 < 90 * a[2]

\* main, "Per-class accuracy": for each class c of 0..3, the samples of the
\* class predicted as c and the samples of the class, <<correct, n>>; a class
\* with n = 0 is not reported.
PerClassAccuracy(Xs, ys, W1, b1, W2, b2) ==
    LET probs == forward(Xs, W1, b1, W2, b2).probs
    IN  Vec([k \in 1..NOut |->
                <<Cardinality({b \in 1..Len(ys) :
                                  ys[b] = k - 1 /\ ArgMax(probs[b]) = k - 1}),
                  Cardinality({b \in 1..Len(ys) : ys[b] = k - 1})>>])

\* The quantized tensor divided by its scale: the value q / scale, rounded to
\* the grid.
Dequantized(t, scale) ==
    Arr(t.shape, [k \in 1..Len(t.data) |-> RoundHalfEven(t.data[k] * scale[2], scale[1])])

\* An evaluation on the rescaled weights in place of the raw integers.
evaluate_dequantized(Xs, ys, W1_q, b1_q, W2_q, b2_q) ==
    Accuracy(Xs, ys, Dequantized(W1_q, scales[1]), Dequantized(b1_q, scales[2]),
             Dequantized(W2_q, scales[3]), Dequantized(b2_q, scales[4]))

\* ndarray.astype(np.float64) of an int8 array: the same values.
AsFloat64(t) == Arr(t.shape, [k \in 1..Len(t.data) |-> t.data[k]])

\* evaluate_quantized(X, y, W1_q, b1_q, W2_q, b2_q)
evaluate_quantized(Xs, ys, W1_q, b1_q, W2_q, b2_q) ==
    Accuracy(Xs, ys, AsFloat64(W1_q), AsFloat64(b1_q), AsFloat64(W2_q), AsFloat64(b2_q))

-----------------------------------------------------------------------------
(* Arrays by reference.  Names hold addresses of arrays in the heap;       *)
(* `W1 -= ...` changes the array at W1's address, .copy() makes a new one. *)

NoHeap == [a \in {} |-> 0]

\* The heap restricted to the addresses still referenced.
Keep(h, addrs) == [a \in (DOMAIN h \cap addrs) |-> h[a]]

AddrSet(refs) == {refs[k] : k \in 1..Len(refs)}

\* The values of the four arrays a tuple of names refers to.
Deref(h, refs) == Vec([k \in 1..Len(refs) |-> h[refs[k]]])

\* A tuple that shares the four arrays in place of copying them.
SnapshotAlias(h, refs) == [heap |-> h, refs |-> refs]

\* (W1.copy(), b1.copy(), W2.copy(), b2.copy()): four new arrays.
Snapshot(h, refs) ==
    LET base == 4 * MinOf({b \in 0..3 : (4 * b + 1) \notin DOMAIN h})
        new == Vec([k \in 1..4 |-> base + k])
    IN  [heap |-> [a \in (DOMAIN h \cup AddrSet(new)) |->
                      IF a \in DOMAIN h THEN h[a] ELSE h[refs[a - base]]],
         refs |-> new]

-----------------------------------------------------------------------------
(* main and train.                                                         *)

NoData == <<>>
NoAcc == <<0, 0>>

\* Bounds of the invocation.
MaxSamples == 2
MaxRealSamples == 2
MaxEpochs == 2
MaxBatch == 2

\* --seed: main's default and train's default.
Seeds == {42, 123}

\* Signal lengths: one window's length (no window by the code's count), and
\* one and two hops more.
SigLens == {1024, 1536, 2048}

MissingFile == [present |-> FALSE, key |-> FALSE, len |-> 0]

FileStates ==
    {MissingFile, [present |-> TRUE, key |-> FALSE, len |-> 2048]}
        \cup {[present |-> TRUE, key |-> TRUE, len |-> l] : l \in SigLens}

TotalWindows(fs) ==
    SumSeq([k \in 1..4 |-> IF Usable(fs[k - 1]) THEN NWindows(fs[k - 1].len) ELSE 0])

TrainIdle ==
    /\ heap = NoHeap
    /\ W = <<>>
    /\ best_params = <<>>
    /\ best_val_acc = NoAcc
    /\ lr = 0
    /\ rng = RandomState(0)
    /\ epoch = 0
    /\ perm = <<>>
    /\ start = 0
    /\ n_batches = 0
    /\ valHist = <<>>
    /\ paramHist = <<>>
    /\ batches = <<>>

PostIdle ==
    /\ P = <<>>
    /\ float_acc = NoAcc
    /\ Wq = <<>>
    /\ scales = <<>>
    /\ int8_acc = NoAcc
    /\ warned = FALSE
    /\ outFile = NoFile
    /\ class_acc = <<>>

MainIdle ==
    /\ pc = "idle"
    /\ args = [cwru_dir |-> FALSE, epochs |-> 0, batch_size |-> 1, lr |-> 0,
               samples |-> 0, seed |-> 0]
    /\ scipy = TRUE
    /\ files = [c \in 0..3 |-> MissingFile]
    /\ X = NoData
    /\ y = NoData
    /\ exitStatus = -1
    /\ raised = ""
    /\ TrainIdle
    /\ PostIdle

\* An error that is recorded while the run goes on to training.
ExitIgnored(why) ==
    /\ pc' = "loaded"
    /\ exitStatus' = exitStatus
    /\ raised' = why

\* The process ends with status 1: sys.exit(1), or an exception no one catches.
Exit1(why) ==
    /\ pc' = "exit"
    /\ exitStatus' = 1
    /\ raised' = why

\* main, "Load data", --cwru-dir given: load_cwru_data(args.cwru_dir).
LoadCwru ==
    /\ pc = "start"
    /\ args.cwru_dir
    /\ IF ~scipy
       THEN Exit1("ConfigurationError") /\ UNCHANGED dataVars
       ELSE LET got == Collect(files, 1)
            IN  IF got.X = <<>>
                THEN Exit1("FatalDataError") /\ UNCHANGED dataVars
                ELSE \E idx \in IndexPermutations(Len(got.y)) :
                        /\ X' = Take(NormalizeColumns(got.X), idx)
                        /\ y' = Take(got.y, idx)
                        /\ pc' = "loaded"
                        /\ UNCHANGED <<exitStatus, raised>>
    /\ UNCHANGED <<envVars, trainVars, postVars, quantVars, saveVars, twiceVars>>

\* main, "Load data", no --cwru-dir: generate_synthetic_data.
LoadSynthetic ==
    /\ pc = "start"
    /\ ~args.cwru_dir
    /\ LET got == generate_synthetic_data(args.samples, args.seed)
       IN  /\ X' = got.X
           /\ y' = got.y
    /\ pc' = "loaded"
    /\ UNCHANGED <<exitStatus, raised, envVars, trainVars, postVars, quantVars, saveVars, twiceVars>>

\* split = int(0.8 * n)
SplitAt(n) == (4 * n) \div 5

X_train == SubSeq(X, 1, SplitAt(Len(y)))
y_train == SubSeq(y, 1, SplitAt(Len(y)))
X_val == SubSeq(X, SplitAt(Len(y)) + 1, Len(y))
y_val == SubSeq(y, SplitAt(Len(y)) + 1, Len(y))
n_train == Len(X_train)

\* train, "Xavier initialization": W1 = randn(16, 8) * sqrt(2/8) = 0.5,
\* b1 = zeros(16), W2 = randn(4, 16) * sqrt(2/16) = 0.35355, b2 = zeros(4),
\* drawn from RandomState(seed).
InitialParams(seed) ==
    LET r0 == RandomState(seed)
        g1 == Randn(r0, NHidden, NIn)
        g2 == Randn(Advance(r0, NHidden * NIn), NOut, NHidden)
        W1 == Arr(g1.shape, [k \in 1..Len(g1.data) |-> RoundHalfEven(g1.data[k], 2)])
        W2 == Arr(g2.shape,
                  [k \in 1..Len(g2.data) |-> RoundHalfEven(g2.data[k] * 35355, 100000)])
    IN  <<W1, Arr(<<NHidden>>, [k \in 1..NHidden |-> 0]),
          W2, Arr(<<NOut>>, [k \in 1..NOut |-> 0])>>

\* main: X = np.clip(X, 0, 255), the 80/20 split, and the head of train:
\* the seeded generator, the initial parameters, best_val_acc and
\* best_params.
TrainInit ==
    /\ pc = "loaded"
    /\ X' = Vec([k \in 1..Len(X) |-> Vec([j \in 1..Len(X[k]) |-> Clip(X[k][j], 0, 255)])])
    /\ LET r0 == RandomState(args.seed)
           h0 == InitialParams(args.seed)
           snap == Snapshot(h0, <<1, 2, 3, 4>>)
       IN  /\ rng' = Advance(r0, NHidden * NIn + NOut * NHidden)
           /\ W' = <<1, 2, 3, 4>>
           /\ heap' = snap.heap
           /\ best_params' = snap.refs
    /\ best_val_acc' = <<0, 1>>
    /\ lr' = args.lr
    /\ epoch' = 0
    /\ pc' = "epoch"
    /\ UNCHANGED <<y, exitStatus, raised, envVars, perm, start, n_batches, valHist,
                   paramHist, batches, postVars, quantVars, saveVars, twiceVars>>

\* train, head of an epoch: perm = rng.permutation(n_train).
EpochStart ==
    /\ pc = "epoch"
    /\ epoch < args.epochs
    /\ perm' = Permutation(rng, n_train)
    /\ rng' = Advance(rng, IF n_train > 1 THEN n_train - 1 ELSE 0)
    /\ start' = 0
    /\ n_batches' = 0
    /\ batches' = <<>>
    /\ pc' = "batch"
    /\ UNCHANGED <<dataVars, exitStatus, raised, envVars, heap, W, best_params,
                   best_val_acc, lr, epoch, valHist, paramHist, postVars, quantVars,
                   saveVars, twiceVars>>

\* A batch that takes in the first sample of the next one.
BatchEndOverlap(from, size, n) == IF from + size + 1 < n THEN from + size + 1 ELSE n

\* end = min(start + batch_size, n_train)
BatchEnd(from, size, n) == IF from + size < n THEN from + size ELSE n

\* train, one batch: forward, backward, and the four in-place updates.
BatchStep ==
    /\ pc = "batch"
    /\ start < n_train
    /\ LET end == BatchEnd(start, args.batch_size, n_train)
           Xb == SubSeq(Take(X_train, perm), start + 1, end)
           yb == SubSeq(Take(y_train, perm), start + 1, end)
           f == forward(Xb, heap[W[1]], heap[W[2]], heap[W[3]], heap[W[4]])
           g == backward(Xb, f.z1, f.h1, f.probs, yb, heap[W[3]])
       IN  heap' = [heap EXCEPT ![W[1]] = SgdStep(@, g.dW1, g.n, lr),
                                ![W[2]] = SgdStep(@, g.db1, g.n, lr),
                                ![W[3]] = SgdStep(@, g.dW2, g.n, lr),
                                ![W[4]] = SgdStep(@, g.db2, g.n, lr)]
    /\ batches' = Append(batches,
                         [samples |-> SubSeq(perm, start + 1,
                                             BatchEnd(start, args.batch_size, n_train)),
                          lr |-> lr, epoch |-> epoch])
    /\ n_batches' = n_batches + 1
    /\ start' = start + args.batch_size
    /\ UNCHANGED <<pc, dataVars, exitStatus, raised, envVars, W, best_params,
                   best_val_acc, lr, rng, epoch, perm, valHist, paramHist, postVars,
                   quantVars, saveVars, twiceVars>>

\* A learning rate that is left as it is.
NoDecay(rate) == rate

\* lr *= lr_decay, with train's default lr_decay = 0.995, which main does not
\* override; rounded to the millionth.
Decay(rate) == RoundHalfEven(rate * 995, 1000)

\* train, after the batches of an epoch: lr *= lr_decay,
\* epoch_loss /= n_batches, the validation accuracy and the best snapshot.
EpochEnd ==
    /\ pc = "batch"
    /\ start >= n_train
    /\ lr' = Decay(lr)
    /\ IF n_batches = 0
       THEN /\ Exit1("ZeroDivisionError")
            /\ UNCHANGED <<heap, best_params, best_val_acc, epoch, valHist, paramHist>>
       ELSE LET val_acc == Accuracy(X_val, y_val,
                                    heap[W[1]], heap[W[2]], heap[W[3]], heap[W[4]])
                snap == Snapshot(heap, W)
            IN  /\ IF AccGreater(val_acc, best_val_acc)
                   THEN /\ best_val_acc' = val_acc
                        /\ best_params' = snap.refs
                        /\ heap' = Keep(snap.heap, AddrSet(W) \cup AddrSet(snap.refs))
                   ELSE UNCHANGED <<best_val_acc, best_params, heap>>
                /\ valHist' = Append(valHist, val_acc)
                /\ paramHist' = Append(paramHist, Deref(heap, W))
                /\ epoch' = epoch + 1
                /\ pc' = "epoch"
                /\ UNCHANGED <<exitStatus, raised>>
    /\ UNCHANGED <<dataVars, envVars, W, rng, perm, start, n_batches, batches,
                   postVars, quantVars, saveVars, twiceVars>>

\* train returns best_params; main binds W1, b1, W2, b2 to them.
TrainReturn ==
    /\ pc = "epoch"
    /\ epoch >= args.epochs
    /\ P' = best_params
    /\ heap' = Keep(heap, AddrSet(best_params))
    /\ pc' = "trained"
    /\ UNCHANGED <<dataVars, exitStatus, raised, envVars, W, best_params, best_val_acc,
                   lr, rng, epoch, perm, start, n_batches, valHist, paramHist,
                   batches, float_acc, Wq, scales, int8_acc, warned, outFile,
                   class_acc, quantVars, saveVars, twiceVars>>

\* main, "Float32 accuracy".
FloatEval ==
    /\ pc = "trained"
    /\ float_acc' = Accuracy(X_val, y_val, heap[P[1]], heap[P[2]], heap[P[3]], heap[P[4]])
    /\ pc' = "evaluated"
    /\ UNCHANGED <<dataVars, exitStatus, raised, envVars, trainVars, P, Wq, scales,
                   int8_acc, warned, outFile, class_acc, quantVars, saveVars,
                   twiceVars>>

\* main, "Quantize to INT8".
Quantize ==
    /\ pc = "evaluated"
    /\ Wq' = MainQuantize(Deref(heap, P), build).q
    /\ scales' = MainQuantize(Deref(heap, P), build).scales
    /\ pc' = "quantized"
    /\ UNCHANGED <<dataVars, exitStatus, raised, envVars, trainVars, P, float_acc,
                   int8_acc, warned, outFile, class_acc, quantVars, saveVars,
                   twiceVars>>

\* main: evaluate_quantized, the below-90% warning, per-class accuracy.
EvalQuantized ==
    /\ pc = "quantized"
    /\ int8_acc' = evaluate_quantized(X_val, y_val, Wq[1], Wq[2], Wq[3], Wq[4])
    /\ warned' = AccBelow90(int8_acc')
    /\ class_acc' = PerClassAccuracy(X_val, y_val, AsFloat64(Wq[1]), AsFloat64(Wq[2]),
                                     AsFloat64(Wq[3]), AsFloat64(Wq[4]))
    /\ pc' = "checked"
    /\ UNCHANGED <<dataVars, exitStatus, raised, envVars, trainVars, P, float_acc, Wq,
                   scales, outFile, quantVars, saveVars, twiceVars>>

\* A run that stops with status 1 in place of saving once the warning was
\* printed.
SaveUnlessWarned ==
    /\ pc = "checked"
    /\ LET r == save_weights(Wq[1], Wq[2], Wq[3], Wq[4], scales)
       IN  IF warned \/ r.raised # ""
           THEN Exit1("QuantizationAccuracyWarning") /\ UNCHANGED outFile
           ELSE pc' = "done" /\ exitStatus' = 0 /\ outFile' = r.file /\ UNCHANGED raised
    /\ UNCHANGED <<dataVars, envVars, trainVars, P, float_acc, Wq, scales, int8_acc,
                   warned, class_acc, quantVars, saveVars, twiceVars>>

\* main, "Save": save_weights, then return 0 and sys.exit(0).
Save ==
    /\ pc = "checked"
    /\ LET r == save_weights(Wq[1], Wq[2], Wq[3], Wq[4], scales)
       IN  /\ outFile' = r.file
           /\ IF r.raised = ""
              THEN pc' = "done" /\ exitStatus' = 0 /\ UNCHANGED raised
              ELSE Exit1(r.raised)
    /\ UNCHANGED <<dataVars, envVars, trainVars, P, float_acc, Wq, scales, int8_acc,
                   warned, class_acc, quantVars, saveVars, twiceVars>>

\* Learning rates of the invocation, in millionths: 0.001 and the default
\* 0.01.
LearningRates == {1000, 10000}

MainInit ==
    /\ pc = "start"
    /\ \/ /\ args \in [cwru_dir : {FALSE}, epochs : 0..MaxEpochs,
                       batch_size : 1..MaxBatch, lr : LearningRates,
                       samples : 0..MaxSamples, seed : Seeds]
          /\ scipy = TRUE
          /\ files = [c \in 0..3 |-> MissingFile]
       \/ /\ args \in [cwru_dir : {TRUE}, epochs : {1}, batch_size : {2},
                       lr : {10000}, samples : {1}, seed : {42}]
          /\ scipy \in BOOLEAN
          /\ files \in [0..3 -> FileStates]
          /\ TotalWindows(files) <= MaxRealSamples
    /\ X = NoData
    /\ y = NoData
    /\ exitStatus = -1
    /\ raised = ""
    /\ TrainIdle
    /\ PostIdle
    /\ QuantIdle
    /\ AnyBuild
    /\ SaveIdle
    /\ TwiceIdle

Next ==
    \/ LoadCwru
    \/ LoadSynthetic
    \/ TrainInit
    \/ EpochStart
    \/ BatchStep
    \/ EpochEnd
    \/ TrainReturn
    \/ FloatEval
    \/ Quantize
    \/ EvalQuantized
    \/ Save

Spec == MainInit /\ [][Next]_vars

-----------------------------------------------------------------------------
(* SpecQuant: quantize_int8 and main's quantization step on bounded        *)
(* tensors.                                                                *)

\* Longest tensor quantized.
QLen == 2

\* Element values: zero, both signs, values that round at a tie (1 of 2 is
\* 63.5, 1 of 4 is 31.75, 3 of 4 is 95.25).
QVals == {-4, -3, -1, 0, 1, 2}

\* The 2-D tensors (W1, W2 are 2-D).
QMatrices == UNION {{Arr(<<1, n>>, d) : d \in [1..n -> QVals]} : n \in 1..QLen}

\* The 1-D tensors (b1, b2 are 1-D): of ordinary magnitude, and the ones that
\* are not all-zero as subnormal tensors.
QVectors ==
    LET normal == UNION {{Arr(<<n>>, d) : d \in [1..n -> QVals]} : n \in 1..QLen}
    IN  normal \cup {Subnormal(t) : t \in {u \in normal : MaxAbs(u) # 0}}

\* The tensors W1, b1, W2 or b2 (i = 1..4) may be.
QTensors(i) == IF i \in {1, 3} THEN QMatrices ELSE QVectors

\* The tensors a first run starts from.
QBase(i) ==
    IF i \in {1, 3}
    THEN {Arr(<<1, 1>>, <<0>>), Arr(<<1, 1>>, <<-4>>)}
    ELSE {Arr(<<1>>, <<0>>), Arr(<<1>>, <<2>>), Subnormal(Arr(<<1>>, <<-1>>))}

QuantInit ==
    /\ qpc = "start"
    /\ \E w1 \in QBase(1), b1 \in QBase(2), w2 \in QBase(3), b2 \in QBase(4) :
          qT = <<w1, b1, w2, b2>>
    /\ qQ = NoQuant
    /\ qScales = <<>>
    /\ build \in Builds
    /\ SaveIdle
    /\ MainIdle
    /\ TwiceIdle

\* main: the four quantize_int8 calls and the scales list.
QuantizeStep ==
    /\ qpc = "start"
    /\ qpc' = "quantized"
    /\ qQ' = MainQuantize(qT, build).q
    /\ qScales' = MainQuantize(qT, build).scales
    /\ UNCHANGED <<qT, build, saveVars, mainVars, twiceVars>>

\* The same step run on parameters that differ from the first run's in one
\* tensor.
QuantizeChanged ==
    /\ qpc = "quantized"
    /\ \E i \in 1..4 : \E t \in QTensors(i) :
          /\ qT' = [qT EXCEPT ![i] = t]
          /\ qQ' = MainQuantize(qT', build).q
          /\ qScales' = MainQuantize(qT', build).scales
    /\ qpc' = "requantized"
    /\ UNCHANGED <<build, saveVars, mainVars, twiceVars>>

QuantNext == QuantizeStep \/ QuantizeChanged

SpecQuant == QuantInit /\ [][QuantNext]_vars

-----------------------------------------------------------------------------
(* SpecSave: save_weights on tensors of the canonical and of other shapes. *)

SaveShapes == {<<16, 8>>, <<8, 16>>, <<16>>, <<4, 16>>, <<4>>}

CanonicalShapes == <<(<<16, 8>>), (<<16>>), (<<4, 16>>), (<<4>>)>>

\* Offsets that make the int8 values of the four tensors differ.
FillSeeds == {0, 100}

\* An int8 tensor of the given shape whose k-th element is base + k.
FillTensor(shape, base) ==
    Arr(shape, [k \in 1..ProdSeq(shape) |-> AsInt8(base + k)])

SaveInit ==
    /\ spc = "start"
    /\ \E sh \in [1..4 -> SaveShapes], seed \in FillSeeds :
          sIn = Vec([i \in 1..4 |-> FillTensor(sh[i], seed + 50 * i)])
    /\ sScales \in {<<(<<127, 2>>), (<<1, 1>>), (<<127, 3>>), (<<127, 5>>)>>}
    /\ sFile = NoFile
    /\ QuantIdle
    /\ AnyBuild
    /\ MainIdle
    /\ TwiceIdle

SaveStep ==
    /\ spc = "start"
    /\ LET r == save_weights(sIn[1], sIn[2], sIn[3], sIn[4], sScales)
       IN  /\ spc' = IF r.raised = "" THEN "saved" ELSE r.raised
           /\ sFile' = r.file
    /\ UNCHANGED <<sIn, sScales, quantVars, mainVars, twiceVars>>

SaveNext == SaveStep

SpecSave == SaveInit /\ [][SaveNext]_vars

-----------------------------------------------------------------------------
(* SpecTwice: a data source called twice with the same arguments and the   *)
(* same files, in one process with other uses of np.random in between, or  *)
(* in two processes.                                                       *)

\* What a process's np.random is seeded with at start (OS entropy).
Entropy == {1, 2, 3}

\* Draws other code takes from np.random between the two calls, at most.
MaxBetween == 2

\* The directories of the real-signal calls: at least one window in all.
TwiceFiles ==
    {fs \in [0..3 -> FileStates] : TotalWindows(fs) \in 1..MaxRealSamples}

\* load_cwru_data on files that hold a window, np.random being in state g:
\* idx = np.random.permutation(len(y)); return X[idx], y[idx].
LoadShuffled(fs, g) ==
    LET got == Collect(fs, 1)
        idx == Permutation(g, Len(got.y))
    IN  [X |-> Take(NormalizeColumns(got.X), idx), y |-> Take(got.y, idx)]

\* main, "Load data", as a function of the arguments, the files and the
\* state of np.random.
DataSource(in, fs, g) ==
    IF in.cwru_dir
    THEN LoadShuffled(fs, g)
    ELSE generate_synthetic_data(in.samples, in.seed)

\* The draws a call takes from np.random.
GlobalDraws(in, fs) ==
    IF in.cwru_dir /\ TotalWindows(fs) > 1 THEN TotalWindows(fs) - 1 ELSE 0

TwiceInit ==
    /\ tpc = "start"
    /\ \/ /\ tIn \in [cwru_dir : {FALSE}, samples : 0..MaxSamples, seed : Seeds]
          /\ files = [c \in 0..3 |-> MissingFile]
       \/ /\ tIn \in [cwru_dir : {TRUE}, samples : {0}, seed : {42}]
          /\ files \in TwiceFiles
    /\ npRandom \in {[seed |-> e, pos |-> 0] : e \in Entropy}
    /\ tOut1 = NoCall
    /\ tOut2 = NoCall
    /\ pc = "idle"
    /\ args = [cwru_dir |-> FALSE, epochs |-> 0, batch_size |-> 1, lr |-> 0,
               samples |-> 0, seed |-> 0]
    /\ scipy = TRUE
    /\ X = NoData
    /\ y = NoData
    /\ exitStatus = -1
    /\ raised = ""
    /\ TrainIdle
    /\ PostIdle
    /\ QuantIdle
    /\ AnyBuild
    /\ SaveIdle

TwiceFrame == UNCHANGED <<tIn, quantVars, saveVars, mainVars>>

\* The first call.
FirstCall ==
    /\ tpc = "start"
    /\ tOut1' = DataSource(tIn, files, npRandom)
    /\ npRandom' = Advance(npRandom, GlobalDraws(tIn, files))
    /\ tpc' = "first"
    /\ UNCHANGED tOut2
    /\ TwiceFrame

\* Other code of the same process draws a value from np.random.
Between ==
    /\ tpc \in {"first", "between"}
    /\ \E k \in 1..MaxBetween :
          /\ npRandom.pos + k <= MaxRealSamples + MaxBetween
          /\ npRandom' = Advance(npRandom, k)
    /\ tpc' = "between"
    /\ UNCHANGED <<tOut1, tOut2>>
    /\ TwiceFrame

\* The first process ends and a second one starts.
NewProcess ==
    /\ tpc = "first"
    /\ npRandom' \in {[seed |-> e, pos |-> 0] : e \in Entropy}
    /\ tpc' = "restarted"
    /\ UNCHANGED <<tOut1, tOut2>>
    /\ TwiceFrame

\* The second call: in the same process ("second"), or as the run of a new
\* process ("rerun").
SecondCall ==
    /\ tpc \in {"first", "between", "restarted"}
    /\ tOut2' = DataSource(tIn, files, npRandom)
    /\ npRandom' = Advance(npRandom, GlobalDraws(tIn, files))
    /\ tpc' = IF tpc = "restarted" THEN "rerun" ELSE "second"
    /\ UNCHANGED tOut1
    /\ TwiceFrame

TwiceNext == FirstCall \/ Between \/ NewProcess \/ SecondCall

SpecTwice == TwiceInit /\ [][TwiceNext]_vars

-----------------------------------------------------------------------------
(* SpecEval: main from the quantization on, for trained parameters drawn   *)
(* from a bounded family with biases of several magnitudes.  The training  *)
(* that led to the parameters is not part of this specification.           *)

\* Seeds of the parameter family.
EvalSeeds == {1, 2, 3, 5}

\* Factors of the two bias vectors: zero, of the size of the weights, larger.
BiasFactors == {0, 1, 40}

\* Trained parameters W1, b1, W2, b2: weights in -8..8, biases in -8..8 times
\* their factor.
EvalParams(seed, k1, k2) ==
    LET r0 == RandomState(seed)
        g1 == Randn(Advance(r0, 500), NHidden, 1)
        g2 == Randn(Advance(r0, 600), NOut, 1)
    IN  <<Randn(r0, NHidden, NIn),
          Arr(<<NHidden>>, [k \in 1..NHidden |-> k1 * g1.data[k]]),
          Randn(Advance(r0, NHidden * NIn), NOut, NHidden),
          Arr(<<NOut>>, [k \in 1..NOut |-> k2 * g2.data[k]])>>

EvalInit ==
    /\ pc = "quantized"
    /\ AnyBuild
    /\ args \in [cwru_dir : {FALSE}, epochs : {1}, batch_size : {1}, lr : {10000},
                  samples : 1..MaxSamples, seed : Seeds]
    /\ scipy = TRUE
    /\ files = [c \in 0..3 |-> MissingFile]
    /\ X = generate_synthetic_data(args.samples, args.seed).X
    /\ y = generate_synthetic_data(args.samples, args.seed).y
    /\ exitStatus = -1
    /\ raised = ""
    /\ \E seed \in EvalSeeds, k1 \in BiasFactors, k2 \in BiasFactors :
          LET params == EvalParams(seed, k1, k2)
          IN  /\ heap = [a \in 5..8 |-> params[a - 4]]
              /\ Wq = MainQuantize(params, build).q
              /\ scales = MainQuantize(params, build).scales
              /\ float_acc = Accuracy(X_val, y_val, params[1], params[2], params[3],
                                      params[4])
    /\ P = <<5, 6, 7, 8>>
    /\ best_params = <<5, 6, 7, 8>>
    /\ W = <<1, 2, 3, 4>>
    /\ best_val_acc = float_acc
    /\ lr = args.lr
    /\ rng = RandomState(args.seed)
    /\ epoch = args.epochs
    /\ perm = <<>>
    /\ start = 0
    /\ n_batches = 0
    /\ valHist = <<>>
    /\ paramHist = <<>>
    /\ batches = <<>>
    /\ int8_acc = NoAcc
    /\ warned = FALSE
    /\ outFile = NoFile
    /\ class_acc = <<>>
    /\ QuantIdle
    /\ SaveIdle
    /\ TwiceIdle

EvalNext == EvalQuantized \/ Save

SpecEval == EvalInit /\ [][EvalNext]_vars

-----------------------------------------------------------------------------
(* Properties of the serializer (SpecSave).                                *)

HasCanonicalShapes == \A i \in 1..4 : sIn[i].shape = CanonicalShapes[i]

TotalSize == SumSeq([i \in 1..4 |-> ProdSeq(sIn[i].shape)])

\* C1: on tensors of shapes (16,8), (16,), (4,16), (4,) save_weights writes a
\* flat sequence of exactly 212 signed 8-bit entries in block order:
\* flat[r*8+c] = W1[r][c], flat[128+i] = b1[i], flat[144+r*16+c] = W2[r][c],
\* flat[208+i] = b2[i].
C1_FlatLayout ==
    (spc # "idle" /\ spc # "start" /\ HasCanonicalShapes) =>
        /\ spc = "saved"
        /\ sFile.saved
        /\ sFile.all_weights.shape = <<212>>
        /\ Len(sFile.all_weights.data) = 212
        /\ \A k \in 1..212 : sFile.all_weights.data[k] \in -128..127
        /\ \A r \in 0..15, c \in 0..7 :
              At1(sFile.all_weights, r * 8 + c) = At2(sIn[1], r, c)
        /\ \A i \in 0..15 : At1(sFile.all_weights, 128 + i) = At1(sIn[2], i)
        /\ \A r \in 0..3, c \in 0..15 :
              At1(sFile.all_weights, 144 + r * 16 + c) = At2(sIn[3], r, c)
        /\ \A i \in 0..3 : At1(sFile.all_weights, 208 + i) = At1(sIn[4], i)

C1_Witness == spc = "saved" /\ HasCanonicalShapes /\ At2(sIn[1], 15, 7) # At1(sIn[2], 0)

\* C2 as claimed: every shape combination other than the canonical one makes
\* save_weights raise instead of writing a file.
C2_OtherShapesRaise ==
    (spc # "idle" /\ spc # "start" /\ ~HasCanonicalShapes) => spc = "AssertionError"

\* C2 as amended: save_weights raises exactly when the four tensors do not
\* hold 212 elements in total, and then writes no file; any shape combination
\* with 212 elements in total is written.
C2_RaisesIffSizeDiffers ==
    (spc # "idle" /\ spc # "start") =>
        /\ (spc = "AssertionError") <=> (TotalSize # 212)
        /\ (spc = "AssertionError") => sFile = NoFile
        /\ (spc # "AssertionError") => (spc = "saved" /\ sFile.saved)

C2_Witness == spc = "AssertionError" /\ ~HasCanonicalShapes /\ TotalSize < 212

-----------------------------------------------------------------------------
(* Properties of the quantizer (SpecQuant).                                *)

QuantDone == qpc \in {"quantized", "requantized"}

AllZero(t) == \A k \in 1..Len(t.data) : t.data[k] = 0

\* C5: quantize returns integers in [-128,127]; an all-zero tensor gives an
\* all-zero tensor of the same shape and scale exactly 1.0.
C5_RangeAndZero ==
    QuantDone =>
        \A i \in 1..4 :
            /\ qQ[i].shape = qT[i].shape
            /\ Len(qQ[i].data) = Len(qT[i].data)
            /\ \A k \in 1..Len(qQ[i].data) : qQ[i].data[k] \in -128..127
            /\ AllZero(qT[i]) =>
                  /\ AllZero(qQ[i])
                  /\ qScales[i][2] # 0
                  /\ FracEq(qScales[i], <<1, 1>>)

C5_Witness ==
    /\ qpc = "requantized"
    /\ \E i \in 1..4 : AllZero(qT[i]) /\ Len(qT[i].data) = 2
    /\ \E i \in 1..4 : \E k \in 1..Len(qQ[i].data) : qQ[i].data[k] = -127
    /\ \E i \in 1..4 : IsSubnormal(qT[i]) /\ qQ[i].data[1] = -128

\* C6 as claimed: for every tensor and every element x with quantized value q
\* and scale s, |x - q/s| <= 1/s; with s = n/d, n > 0, d > 0 this is
\* |x*n - q*d| <= d, and no x # 0 satisfies it when s is inf.
C6_RoundTrip ==
    QuantDone =>
        \A i \in 1..4 :
            /\ qScales[i][1] > 0
            /\ qScales[i][2] > 0
            /\ \A k \in 1..Len(qT[i].data) :
                  Abs(qT[i].data[k] * qScales[i][1] - qQ[i].data[k] * qScales[i][2])
                      <= qScales[i][2]

\* A tensor of ordinary magnitude with an element that does not quantize
\* exactly (3 of 4: 95.25), where the bound holds.
C6_Witness ==
    /\ qpc = "requantized"
    /\ \E i \in 1..4 : \E k \in 1..Len(qT[i].data) :
          /\ qT[i].data[k] = -3
          /\ qQ[i].data[k] = -95
          /\ qScales[i] = <<127, 4>>

\* The scale of a tensor computed from that tensor alone.
OwnScale(t) ==
    IF AllZero(t) THEN <<1, 1>>
    ELSE IF IsSubnormal(t) THEN <<1, 0>>
    ELSE <<127, MaxAbs(t)>>

\* C7: quantization is per tensor: there are four scales, in the order W1, b1,
\* W2, b2, each computed from its own tensor's maximum absolute value, and
\* changing one tensor changes neither the scale nor the quantized values of
\* another.
C7_PerTensor ==
    /\ [](QuantDone =>
            /\ Len(qScales) = 4
            /\ \A i \in 1..4 : FracEq(qScales[i], OwnScale(qT[i])))
    /\ [][\A i \in 1..4 :
            (qpc = "quantized" /\ qT'[i] = qT[i]) =>
                (qQ'[i] = qQ[i] /\ qScales'[i] = qScales[i])]_vars

\* A rerun that changed one tensor, with scales that differ between tensors.
C7_Witness ==
    /\ qpc = "requantized"
    /\ MaxAbs(qT[1]) = 4
    /\ MaxAbs(qT[2]) = 2
    /\ qScales[1] = <<127, 4>>
    /\ qScales[2] = <<127, 2>>

\* C22 as claimed: for every tensor that is not all-zero, every quantized
\* value lies in [-127,127] and is the rounded product itself (the scale is
\* finite and the clip changes nothing, so -128 is never produced), each
\* element of maximum absolute value maps to 127 or to -127 according to its
\* sign, and a zero element maps to 0.
C22_StrictlySymmetric ==
    QuantDone =>
        \A i \in 1..4 :
            ~AllZero(qT[i]) =>
                /\ qScales[i][2] # 0
                /\ \A k \in 1..Len(qT[i].data) :
                      LET x == qT[i].data[k]
                          q == qQ[i].data[k]
                      IN  /\ q \in -127..127
                          /\ q = RoundHalfEven(x * qScales[i][1], qScales[i][2])
                          /\ (x = MaxAbs(qT[i])) => q = 127
                          /\ (x = -MaxAbs(qT[i])) => q = -127
                          /\ (x = 0) => q = 0

-----------------------------------------------------------------------------
(* Properties of train (Spec).                                             *)

\* The values best_params holds.
BestValue == Deref(heap, best_params)

Trained == pc \in {"trained", "evaluated", "quantized", "checked", "done"}

\* Epoch k's validation accuracy is the highest of the run, and no earlier
\* epoch reached it.
EarliestBest(k) ==
    /\ \A j \in 1..Len(valHist) : ~FracLess(valHist[k], valHist[j])
    /\ \A j \in 1..(k - 1) : FracLess(valHist[j], valHist[k])

\* C3 as claimed: train returns the parameters as they stood at the end of
\* the earliest epoch whose validation accuracy equals the highest observed
\* over the epochs of the run (stated for runs of at least one epoch).
C3_EarliestBestEpoch ==
    (Trained /\ args.epochs >= 1) =>
        \E k \in 1..Len(valHist) : EarliestBest(k) /\ Deref(heap, P) = paramHist[k]

\* C3 as amended: if some epoch's validation accuracy is above zero, train
\* returns the parameters as they stood at the end of the earliest epoch whose
\* validation accuracy is the highest of the run, so an epoch that only ties
\* the best so far does not replace them; if no epoch's validation accuracy
\* is above zero (or no epoch ran), train returns the initial parameters.
\* The same holds of best_params after every epoch, for the epochs so far.
C3_EarliestBestOrInitial ==
    (pc = "epoch" \/ Trained) =>
        /\ Len(valHist) = epoch
        /\ Len(paramHist) = epoch
        /\ Trained => P = best_params
        /\ IF \E k \in 1..epoch : FracLess(<<0, 1>>, valHist[k])
           THEN \E k \in 1..epoch :
                    /\ EarliestBest(k)
                    /\ BestValue = paramHist[k]
                    /\ best_val_acc = valHist[k]
           ELSE /\ BestValue = InitialParams(args.seed)
                /\ best_val_acc = <<0, 1>>

\* A run whose second epoch ties the first at a positive accuracy with other
\* parameters: the first epoch's are returned, not the final ones.
C3_Witness ==
    /\ pc = "trained"
    /\ epoch = 2
    /\ FracLess(<<0, 1>>, valHist[1])
    /\ valHist[2] = valHist[1]
    /\ paramHist[2] # paramHist[1]
    /\ Deref(heap, P) = paramHist[1]

\* C4: the stored best parameters share no array with the working
\* parameters; a batch update changes no element of the stored best W1, b1,
\* W2, b2; and their values change only at the end of an epoch whose
\* validation accuracy is strictly above the best so far.
C4_SnapshotNotAliased ==
    /\ []((pc \in {"epoch", "batch"}) => AddrSet(best_params) \cap AddrSet(W) = {})
    /\ [][(pc = "batch" /\ n_batches' = n_batches + 1) => BestValue' = BestValue]_vars
    /\ [][(pc \in {"epoch", "batch"} /\ BestValue' # BestValue) =>
            /\ pc = "batch"
            /\ epoch' = epoch + 1
            /\ FracLess(best_val_acc, valHist'[epoch'])
            /\ BestValue' = paramHist'[epoch']]_vars

\* A batch update of a later epoch, after a snapshot was taken on an
\* improvement, with working parameters that have moved away from it.
C4_Witness ==
    /\ pc = "batch"
    /\ epoch >= 1
    /\ n_batches >= 1
    /\ FracLess(<<0, 1>>, best_val_acc)
    /\ BestValue = paramHist[epoch]
    /\ Deref(heap, W) # BestValue

-----------------------------------------------------------------------------
(* Properties of main and the real-signal load (Spec).                     *)

\* C8 as claimed: a run ends with non-zero status only when its data source
\* yielded no sample at all.
C8_NonZeroOnlyWithoutSamples ==
    (exitStatus # -1 /\ exitStatus # 0) => Len(X) = 0

\* How often the sample (row, label) occurs in the data set.
Copies(rows, labels, row, label) ==
    Cardinality({i \in 1..Len(rows) : rows[i] = row /\ labels[i] = label})

\* Two data sets hold the same samples, each as often, in any order.
SameSamples(rows1, labels1, rows2, labels2) ==
    /\ Len(rows1) = Len(rows2)
    /\ Len(labels1) = Len(rows1)
    /\ Len(labels2) = Len(rows2)
    /\ \A k \in 1..Len(rows1) :
          Copies(rows1, labels1, rows1[k], labels1[k])
              = Copies(rows2, labels2, rows1[k], labels1[k])

\* What the files hold, file by file: the windows of every file that is
\* present and has the key, with the label of the file.
Expected ==
    LET part(c) == IF Usable(files[c])
                   THEN [X |-> Vec([i \in 1..NWindows(files[c].len) |->
                                       SignalFeatures(c, i - 1)]),
                         y |-> Vec([i \in 1..NWindows(files[c].len) |-> c])]
                   ELSE [X |-> <<>>, y |-> <<>>]
    IN  [X |-> part(0).X \o part(1).X \o part(2).X \o part(3).X,
         y |-> part(0).y \o part(1).y \o part(2).y \o part(3).y]

\* C9: when the real-signal load ends in FatalDataError or
\* ConfigurationError, the run is over with status 1 and nothing of training,
\* evaluation, quantization or the artifact exists, then or later.
C9_DataErrorsBeforeTraining ==
    (raised \in {"FatalDataError", "ConfigurationError"}) =>
        /\ pc = "exit"
        /\ exitStatus = 1
        /\ args.cwru_dir
        /\ X = NoData
        /\ TrainIdle
        /\ PostIdle
        /\ ~(ENABLED Next)

C9_Witness ==
    /\ raised = "FatalDataError"
    /\ \E c \in 0..3 : Usable(files[c])
    /\ \E c \in 0..3 : ~files[c].present

\* C10: with the parser available, load skips a file that is missing (or
\* lacks the key), returns every window of every other file under the label
\* of its file, fails exactly when no file gave a window, and main goes on to
\* training otherwise.
C10_MissingFileSkipped ==
    /\ []((args.cwru_dir /\ scipy /\ pc # "start") =>
            /\ (raised = "FatalDataError") <=> (Expected.X = <<>>)
            /\ (raised # "FatalDataError") =>
                  /\ Len(X) = Len(Expected.X)
                  /\ Len(y) = Len(X)
                  /\ \A c \in 0..3 :
                        Cardinality({k \in 1..Len(y) : y[k] = c})
                            = (IF Usable(files[c]) THEN NWindows(files[c].len) ELSE 0))
    /\ []((args.cwru_dir /\ pc = "loaded") =>
            SameSamples(X, y, NormalizeColumns(Expected.X), Expected.y))
    /\ [][(args.cwru_dir /\ pc = "loaded") =>
            (pc' = "epoch" /\ epoch' = 0 /\ W' # <<>> /\ exitStatus' = -1)]_vars

\* Two files give a window each, a third is missing, and training has begun.
C10_Witness ==
    /\ args.cwru_dir
    /\ pc = "batch"
    /\ ~files[1].present
    /\ Usable(files[0]) /\ Usable(files[2])
    /\ Len(y) = 2
    /\ {y[1], y[2]} = {0, 2}

-----------------------------------------------------------------------------
(* Properties of main after quantization (Spec).                           *)

\* The artifact save_weights writes for the quantized parameters of the run.
ArtifactOf(q, scale_list) == save_weights(q[1], q[2], q[3], q[4], scale_list).file

\* C11: the below-90% warning is advisory: the step that decides it changes
\* nothing but the accuracy and the warning; whether or not it was printed,
\* the next step is the save of the artifact of the same quantized
\* parameters, and the run ends with status 0.
C11_WarningAdvisory ==
    /\ [][pc = "quantized" =>
            /\ pc' = "checked"
            /\ warned' = FracLess(int8_acc', <<9, 10>>)
            /\ UNCHANGED <<Wq, scales, outFile, exitStatus, raised, heap, P>>]_vars
    /\ [][pc = "checked" =>
            /\ pc' = "done"
            /\ exitStatus' = 0
            /\ outFile' = ArtifactOf(Wq, scales)
            /\ outFile'.saved
            /\ UNCHANGED <<Wq, scales, warned>>]_vars
    /\ []((pc = "done") => (exitStatus = 0 /\ outFile = ArtifactOf(Wq, scales)))

\* A run that printed the warning and ended with the artifact and status 0.
C11_Witness ==
    /\ pc = "done"
    /\ warned
    /\ int8_acc[2] > 0
    /\ exitStatus = 0
    /\ outFile.saved

\* A run that ended the same way without the warning.
C11_NoWarningRun ==
    /\ pc = "done"
    /\ ~warned
    /\ int8_acc[2] > 0
    /\ FracEq(int8_acc, <<1, 1>>)

-----------------------------------------------------------------------------
(* Properties of the data sources called twice (SpecTwice).                *)

\* C12 as claimed: two runs with the same seed and the same input data, for
\* either data source, yield the same dataset in the same order (and with it
\* the same train/validation split).
C12_SameSeedSameDataset ==
    (tpc = "rerun") => (tOut2.X = tOut1.X /\ tOut2.y = tOut1.y)

\* C13: generate(n, seed) called twice returns the same feature vectors with
\* the same labels in the same order, whatever was drawn from np.random in
\* between and whether or not the second call is made by another process.
C13_GenerateDeterministic ==
    (tpc \in {"second", "rerun"} /\ ~tIn.cwru_dir) =>
        /\ Len(tOut1.y) = 4 * tIn.samples
        /\ tOut2.X = tOut1.X
        /\ tOut2.y = tOut1.y

\* Two calls for two samples per class with draws from np.random in between,
\* returning a set that is not in class order.
C13_Witness ==
    /\ tpc = "second"
    /\ ~tIn.cwru_dir
    /\ tIn.samples = 2
    /\ npRandom.pos > 0
    /\ tOut2 = tOut1
    /\ \E k \in 1..7 : tOut1.y[k] > tOut1.y[k + 1]
    /\ \E k \in 1..8 : tOut1.X[k] # tOut1.X[1]

\* The samples of class c that generate draws, before the shuffle: sample i
\* takes the i-th value of each of the 8 uniform calls of the class.
ClassSamples(n, seed, c) ==
    Vec([i \in 1..n |-> Vec([j \in 1..NIn |-> SyntheticColumn(seed, n, c, j)[i]])])

\* C14: generate(n, seed) returns 4n samples, exactly n with each label
\* 0..3; they are the samples drawn for the four classes, each under the
\* label of its class, in some order; and every one of the 8 features of
\* every sample lies in [0,255] (within the range of its class and feature).
C14_BalancedAndInRange ==
    (tpc # "start" /\ ~tIn.cwru_dir) =>
        LET n == tIn.samples
            rows == ClassSamples(n, tIn.seed, 0) \o ClassSamples(n, tIn.seed, 1)
                        \o ClassSamples(n, tIn.seed, 2) \o ClassSamples(n, tIn.seed, 3)
            labels == Vec([k \in 1..(4 * n) |-> (k - 1) \div n])
        IN  /\ Len(tOut1.X) = 4 * n
            /\ Len(tOut1.y) = 4 * n
            /\ \A c \in 0..3 : Cardinality({k \in 1..(4 * n) : tOut1.y[k] = c}) = n
            /\ SameSamples(tOut1.X, tOut1.y, rows, labels)
            /\ \A k \in 1..(4 * n) :
                  /\ Len(tOut1.X[k]) = 8
                  /\ \A j \in 1..8 :
                        /\ tOut1.X[k][j] >= 0
                        /\ tOut1.X[k][j] <= 255
                        /\ tOut1.X[k][j] >= ClassRanges[tOut1.y[k] + 1][j][1]
                        /\ tOut1.X[k][j] <= ClassRanges[tOut1.y[k] + 1][j][2]

\* Two samples per class, returned out of class order, with a feature in the
\* upper part of the range.
C14_Witness ==
    /\ tpc = "first"
    /\ ~tIn.cwru_dir
    /\ tIn.samples = 2
    /\ \E k \in 1..7 : tOut1.y[k] > tOut1.y[k + 1]
    /\ \E k \in 1..8 : \E j \in 1..8 : tOut1.X[k][j] > 240

-----------------------------------------------------------------------------
(* Properties of the training loop (Spec).                                 *)

\* C15 as claimed: once a dataset of at least one sample was delivered, for
\* epochs >= 1 and batch_size >= 1, train raises nothing: the run does not
\* end inside train.
C15_TrainNeverRaises ==
    (Len(y) >= 1 /\ args.epochs >= 1 /\ args.batch_size >= 1) =>
        ~(pc = "exit" /\ raised = "ZeroDivisionError")

-----------------------------------------------------------------------------
(* Properties of the quantized evaluation (Spec).                          *)

\* The class the forward pass predicts for each validation sample when it is
\* given the four tensors as they are.
Predictions(tensors) ==
    LET probs == forward(X_val, tensors[1], tensors[2], tensors[3], tensors[4]).probs
    IN  Vec([b \in 1..Len(y_val) |-> ArgMax(probs[b])])

Hits(preds, c) == Cardinality({b \in 1..Len(y_val) : y_val[b] = c /\ preds[b] = c})

\* C16: the quantized accuracy is the accuracy of the forward pass on the raw
\* integer values of the quantized tensors, with no use of the scales; the
\* float accuracy is that of the same forward pass on the float parameters;
\* and the per-class quantized accuracy counts the predictions of the same
\* raw integer tensors.
C16_RawIntegerEvaluation ==
    (pc \in {"checked", "done"}) =>
        LET raw == Predictions(Wq)
            flt == Predictions(Deref(heap, P))
        IN  /\ int8_acc = <<Hits(raw, 0) + Hits(raw, 1) + Hits(raw, 2) + Hits(raw, 3),
                            Len(y_val)>>
            /\ float_acc = <<Hits(flt, 0) + Hits(flt, 1) + Hits(flt, 2) + Hits(flt, 3),
                             Len(y_val)>>
            /\ Len(class_acc) = 4
            /\ \A c \in 0..3 :
                  class_acc[c + 1] =
                      <<Hits(raw, c), Cardinality({b \in 1..Len(y_val) : y_val[b] = c})>>

\* A run whose tensors have scales other than 1, the biases another than the
\* weights, and where the raw integers do not predict what the float
\* parameters predict.
C16_Witness ==
    /\ pc = "checked"
    /\ \A i \in 1..4 : ~FracEq(scales[i], <<1, 1>>)
    /\ ~FracEq(scales[1], scales[2])
    /\ Predictions(Wq) # Predictions(Deref(heap, P))

-----------------------------------------------------------------------------
(* Properties of the batch loop and the learning rate (Spec).              *)

\* The sample indices of the batches recorded so far, one after the other.
RECURSIVE BatchSamples(_)
BatchSamples(bs) == IF bs = <<>> THEN <<>> ELSE Head(bs).samples \o BatchSamples(Tail(bs))

\* The batches of an epoch are complete: the epoch is at its end, or it has
\* ended and the next has not drawn its permutation.
EpochBatchesDone ==
    \/ pc = "batch" /\ start >= n_train
    \/ pc = "epoch" /\ epoch >= 1

\* C17: the epoch's perm is a permutation of the training set's indices; the
\* batches are consecutive slices of it, so that at the end of the epoch each
\* training sample was in exactly one batch; every batch but the last has
\* batch_size samples and the last has what remains; and the epoch makes
\* ceil(n_train / batch_size) updates.
C17_BatchesPartitionEpoch ==
    /\ (pc = "batch") =>
          /\ Len(perm) = n_train
          /\ {perm[k] : k \in 1..n_train} = 0..(n_train - 1)
          /\ Len(batches) = n_batches
          /\ BatchSamples(batches) = SubSeq(perm, 1, MinOf({start, n_train}))
    /\ EpochBatchesDone =>
          /\ BatchSamples(batches) = perm
          /\ \A i \in 0..(n_train - 1) :
                Cardinality({<<b, k>> \in (1..Len(batches)) \X (1..args.batch_size) :
                                k <= Len(batches[b].samples)
                                    /\ batches[b].samples[k] = i}) = 1
          /\ n_batches = (n_train + args.batch_size - 1) \div args.batch_size
          /\ Len(batches) = n_batches
          /\ \A b \in 1..(n_batches - 1) : Len(batches[b].samples) = args.batch_size
          /\ n_batches >= 1 =>
                Len(batches[n_batches].samples)
                    = n_train - args.batch_size * (n_batches - 1)

\* An epoch over three samples in batches of two: a full batch and a short
\* one, in shuffled order.
C17_Witness ==
    /\ pc = "batch"
    /\ start >= n_train
    /\ n_train = 3
    /\ args.batch_size = 2
    /\ Len(batches) = 2
    /\ Len(batches[2].samples) = 1
    /\ perm # <<0, 1, 2>>

\* lr0 * lr_decay^k on the model's grid: k decays of lr_decay = 0.995, each
\* rounded to the millionth.
RECURSIVE DecayedRate(_, _)
DecayedRate(rate, k) ==
    IF k = 0 THEN rate
    ELSE LET before == DecayedRate(rate, k - 1)
             twice == 2 * before * 995
             down == (before * 995) \div 1000
         IN  IF twice % 2000 > 1000 \/ (twice % 2000 = 1000 /\ down % 2 = 1)
             THEN down + 1 ELSE down

\* C18: during the batches of epoch k (from 0) the learning rate is
\* lr0 * lr_decay^k, and every batch of the epoch was updated with it; the
\* rate changes in no batch step; and the validation accuracy of an epoch is
\* taken in the step that follows its last batch, on the parameters that
\* batch left, the rate being decayed once in that step.
C18_DecayOncePerEpoch ==
    /\ []((pc \in {"epoch", "batch"}) => lr = DecayedRate(args.lr, epoch))
    /\ []((pc = "batch") =>
            \A b \in 1..Len(batches) :
                /\ batches[b].epoch = epoch
                /\ batches[b].lr = DecayedRate(args.lr, epoch))
    /\ [][(pc = "batch" /\ pc' = "batch") => lr' = lr]_vars
    /\ [][(valHist' # valHist) =>
            /\ pc = "batch"
            /\ start >= n_train
            /\ Len(batches) = (n_train + args.batch_size - 1) \div args.batch_size
            /\ epoch' = epoch + 1
            /\ lr' = DecayedRate(args.lr, epoch + 1)
            /\ paramHist'[epoch'] = Deref(heap, W)
            /\ Deref(heap', W') = Deref(heap, W)]_vars

\* A batch of the second epoch, updated with the once-decayed rate.
C18_Witness ==
    /\ pc = "batch"
    /\ epoch = 1
    /\ args.lr = 10000
    /\ Len(batches) >= 1
    /\ batches[1].lr = 9950
    /\ lr = 9950

-----------------------------------------------------------------------------
(* Properties of the real-signal load: windows and normalization (Spec).   *)

\* The starts s in {0, 512, 1024, ...} with s + 1024 <= len: the full windows
\* of a signal.
FullWindows(len) == Cardinality({s \in 0..len : s % 512 = 0 /\ s + 1024 <= len})

\* C19 as claimed: the load gives one sample for every full window of every
\* usable file, so a signal of exactly 1024 samples gives one.
C19_EveryFullWindow ==
    (args.cwru_dir /\ scipy /\ pc # "start") =>
        /\ (raised = "FatalDataError") <=>
              (\A c \in 0..3 : Usable(files[c]) => FullWindows(files[c].len) = 0)
        /\ (pc # "exit") =>
              \A c \in 0..3 :
                  Cardinality({k \in 1..Len(y) : y[k] = c})
                      = (IF Usable(files[c]) THEN FullWindows(files[c].len) ELSE 0)

\* Column j of a matrix given as rows, as a set of values.
ColumnValues(rows, j) == {rows[k][j] : k \in 1..Len(rows)}

\* C20: the dataset the load returns is, up to its order, the collected
\* windows with their labels, each of the 8 columns min-max normalized on its
\* own over all rows: every value lies in [0,255]; in a column with a range
\* the rows of the minimum get 0 and the rows of the maximum 255, and the
\* order of the values is kept; a column of equal values is 0 in every row.
C20_ColumnsNormalized ==
    (args.cwru_dir /\ pc = "loaded") =>
        LET raw == Expected.X
            N == NormalizeColumns(raw)
        IN  /\ SameSamples(X, y, N, Expected.y)
            /\ \A k \in 1..Len(X) : \A j \in 1..8 : X[k][j] >= 0 /\ X[k][j] <= 255
            /\ \A j \in 1..8 :
                  LET cmin == MinOf(ColumnValues(raw, j))
                      cmax == MaxOf(ColumnValues(raw, j))
                  IN  IF cmax > cmin
                      THEN /\ MinOf(ColumnValues(X, j)) = 0
                           /\ MaxOf(ColumnValues(X, j)) = 255
                           /\ \A k \in 1..Len(raw) :
                                 /\ raw[k][j] = cmin => N[k][j] = 0
                                 /\ raw[k][j] = cmax => N[k][j] = 255
                                 /\ \A m \in 1..Len(raw) :
                                       raw[k][j] <= raw[m][j] => N[k][j] <= N[m][j]
                      ELSE ColumnValues(X, j) = {0}

\* A load of two windows with a column of equal values and a column with a
\* range.
C20_Witness ==
    /\ args.cwru_dir
    /\ pc = "loaded"
    /\ Len(y) = 2
    /\ \E j \in 1..8 : Cardinality(ColumnValues(Expected.X, j)) = 1
                          /\ ColumnValues(Expected.X, j) # {0}
    /\ \E j \in 1..8 : ColumnValues(X, j) = {0, 255}

-----------------------------------------------------------------------------
(* The reported best validation accuracy (Spec).                           *)

\* The validation accuracy of the parameters train returned, computed as main
\* computes float_acc.
ReturnedValAccuracy ==
    Accuracy(X_val, y_val, heap[P[1]], heap[P[2]], heap[P[3]], heap[P[4]])

\* C21 as claimed: once train has returned, the best validation accuracy it
\* tracked and reported equals the validation accuracy of the parameters it
\* returned, in every run, runs of zero epochs and runs in which no epoch's
\* validation accuracy exceeded the initial 0.0 included.
C21_BestAccuracyOfReturned ==
    Trained =>
        /\ ReturnedValAccuracy[2] # 0
        /\ FracEq(best_val_acc, ReturnedValAccuracy)

=============================================================================
